---- MODULE Spec2Model ----
(***************************************************************************)
(* Tab Splitter background service worker (src/unnamed/part_001).          *)
(*                                                                         *)
(* The worker is one JavaScript event loop.  Every message from the popup  *)
(* starts an async handler that runs synchronously up to its next `await`  *)
(* of a host call (chrome API) and is resumed when the host settles that   *)
(* call.  Each action below is one such synchronous segment: the delivery  *)
(* of a message up to the first await, or the settlement of an awaited     *)
(* host call together with the continuation that runs up to the next       *)
(* await or to sendResponse.  Segments of different requests interleave,   *)
(* and so do chrome.windows.onRemoved events.  The only shared state is    *)
(* the module-level Set referenceWindows.                                  *)
(***************************************************************************)
EXTENDS Integers, Sequences, FiniteSets, TLC

\* ------------------------------------------------------------------ bounds
\* Requests that may be in flight together in SpecRef.
MaxRequests == 2
\* Window ids the host hands out before window creation can only fail.
MaxWindowId == 5
\* Tabs the host knows; a current window holds 0..MaxTabs of them.
MaxTabs == 3
\* Current-window widths range over MinSplitWidth-1 .. MinSplitWidth+WidthSpread.
WidthSpread == 2

\* ------------------------------------------------------ program constants
MinSplitWidth == 400
MinSplitHeight == 300
MaxReferenceWindows == 3

\* -------------------------------------------------------------- JS values
\* A value a message field can carry: null/undefined, a string, or a number
\* (n, or n + 0.5 when frac).
Null == [type |-> "null", n |-> 0, frac |-> FALSE]
Str(k) == [type |-> "string", n |-> k, frac |-> FALSE]
Num(k) == [type |-> "number", n |-> k, frac |-> FALSE]
Half(k) == [type |-> "number", n |-> k, frac |-> TRUE]

\* JS `!x`: null, undefined and the number 0 are falsy.
Falsy(x) == x.type = "null" \/ (x.type = "number" /\ x.n = 0 /\ ~x.frac)
TypeofNumber(x) == x.type = "number"
IsInteger(x) == x.type = "number" /\ ~x.frac

\* ------------------------------------------------------------------- host
\* Ids of the tabs the host knows, and one id it does not know.
HostTabIds == {10 + i : i \in 1..MaxTabs}
UnknownTabId == 10 + MaxTabs + 1
TabExists(x) == IsInteger(x) /\ x.n \in HostTabIds

\* The current window has an id no created window gets.
OriginWindowId == 0

\* The tab list of a window with k tabs of which the a-th is active (a = 0:
\* the snapshot shows no active tab).
TabList(k, a) == [i \in 1..k |-> [id |-> 10 + i, active |-> (i = a)]]

WindowDescriptor(l, t, w, h, tabs) ==
  [id |-> OriginWindowId, left |-> l, top |-> t, width |-> w, height |-> h, tabs |-> tabs]

\* What chrome.windows.getCurrent({populate: true}) may resolve with.
CurrentWindows ==
  {WindowDescriptor(30, 20, w, h, TabList(k, a)) :
     w \in (MinSplitWidth - 1)..(MinSplitWidth + WidthSpread),
     h \in {MinSplitHeight - 1, MinSplitHeight},
     k \in 0..MaxTabs, a \in 0..MaxTabs}
PlainWindows == {WindowDescriptor(30, 20, MinSplitWidth + 1, MinSplitHeight, TabList(2, 1))}

NoWindow == [id |-> -1, left |-> 0, top |-> 0, width |-> 0, height |-> 0, tabs |-> <<>>]

\* Messages of the host's failures.
GetCurrentError == "No current window"
GetTabError == "No tab with id"
CreateError == "Failed to create window"
RemoveError == "No window with id"
\* error.message of reading .id of undefined.
TypeErrorMessage == "Cannot read properties of undefined (reading 'id')"

VARIABLES
  referenceWindows, \* the Set of tracked reference window ids
  pc,               \* per request: where its handler is suspended
  msg,              \* per request: the message delivered
  loc,              \* per request: the handler's local variables
  calls,            \* per request: the host calls it issued, with results
  sent,             \* per request: the responses passed to sendResponse
  hostWindows,      \* ids of the open windows createReferenceWindow created
  nextWindowId,     \* the id the host gives the next created window
  events            \* window ids whose onRemoved event is not yet delivered

vars == <<referenceWindows, pc, msg, loc, calls, sent, hostWindows, nextWindowId, events>>
hostVars == <<hostWindows, nextWindowId, events>>

Requests == 1..MaxRequests

NoMessage == [action |-> "none", leftTabId |-> Null, rightTabId |-> Null, tabId |-> Null, windowId |-> 0]
Message(a, l, rt, t, w) == [action |-> a, leftTabId |-> l, rightTabId |-> rt, tabId |-> t, windowId |-> w]

NoLocals ==
  [leftTabId |-> Null, rightTabId |-> Null, tabs |-> <<>>, cw |-> NoWindow,
   leftTab |-> "unset", leftWindow |-> 0, rightWindow |-> 0, pending |-> {}]

\* The worker has served earlier requests that left k reference windows
\* open and tracked; no request is in flight.
Init ==
  /\ \E k \in 0..MaxReferenceWindows :
       /\ referenceWindows = 1..k
       /\ hostWindows = 1..k
       /\ nextWindowId = k + 1
  /\ pc = [r \in Requests |-> "idle"]
  /\ msg = [r \in Requests |-> NoMessage]
  /\ loc = [r \in Requests |-> NoLocals]
  /\ calls = [r \in Requests |-> <<>>]
  /\ sent = [r \in Requests |-> <<>>]
  /\ events = {}

\* ------------------------------------------------------------ bookkeeping
\* The next message goes to the lowest request not yet used.
CanDeliver(r) == pc[r] = "idle" /\ \A q \in 1..(r - 1) : pc[q] # "idle"

Failure(message) == [success |-> FALSE, error |-> message]

\* The handler of r, whose host calls so far are `log`, passes `response` to
\* sendResponse and is finished.
Finish(r, log, response) ==
  /\ calls' = [calls EXCEPT ![r] = log]
  /\ pc' = [pc EXCEPT ![r] = "done"]
  /\ sent' = [sent EXCEPT ![r] = Append(@, response)]

\* The handler of r, whose host calls so far are `log`, issues the host call
\* `call` and suspends at `at`.
Await(r, log, call, at) ==
  /\ calls' = [calls EXCEPT ![r] = Append(log, call @@ [result |-> "pending"])]
  /\ pc' = [pc EXCEPT ![r] = at]
  /\ sent' = sent

\* The calls of r with the last one, the awaited one, settled with `result`.
Settled(r, result) == [calls[r] EXCEPT ![Len(calls[r])].result = result]

Respond(r, response) == Finish(r, calls[r], response)
Issue(r, call, at) == Await(r, calls[r], call, at)
SettleAndRespond(r, result, response) == Finish(r, Settled(r, result), response)
SettleAndIssue(r, result, call, at) == Await(r, Settled(r, result), call, at)

GetCurrentCall == [op |-> "windows.getCurrent"]
GetTabCall(tabId) == [op |-> "tabs.get", tabId |-> tabId]
CreateCall(tabId, bounds, focused) ==
  [op |-> "windows.create", tabId |-> tabId, left |-> bounds.left, top |-> bounds.top,
   width |-> bounds.width, height |-> bounds.height, focused |-> focused]
RemoveCall(windowId) == [op |-> "windows.remove", windowId |-> windowId]

\* Outcomes of chrome.tabs.get(tabId): a tab, nothing, or a rejection; a
\* tab the host does not know (or an id that is no integer) is rejected.
GetTabOutcomes(tabId) == IF TabExists(tabId) THEN {"ok", "none", "fail"} ELSE {"fail"}
\* Outcomes of chrome.windows.create: a window, nothing, or a rejection.
CreateOutcomes == IF nextWindowId <= MaxWindowId THEN {"ok", "none", "fail"} ELSE {"none", "fail"}
\* Outcomes of chrome.windows.remove(windowId): a window that is not open
\* cannot be removed, an open one is removed unless the host fails.
RemoveOutcomes(windowId) ==
  IF windowId \in hostWindows \cup {OriginWindowId} THEN {"ok", "fail"} ELSE {"fail"}
\* The host closes the window and queues its onRemoved event.
HostRemoves(windowId) ==
  /\ hostWindows' = hostWindows \ {windowId}
  /\ events' = events \cup {windowId}
  /\ nextWindowId' = nextWindowId
\* The host opens a window with the next id.
HostCreates ==
  /\ nextWindowId' = nextWindowId + 1
  /\ UNCHANGED <<hostWindows, events>>
\* The host opens a reference window with the next id.
HostCreatesReference ==
  /\ hostWindows' = hostWindows \cup {nextWindowId}
  /\ nextWindowId' = nextWindowId + 1
  /\ events' = events

\* ------------------------------------------------------------ splitWindow
\* Line 17: the guard that rejects the tab ids.
InvalidTabIds(leftTabId, rightTabId) ==
  \/ Falsy(leftTabId)
  \/ Falsy(rightTabId)
  \/ ~TypeofNumber(leftTabId)
  \/ ~TypeofNumber(rightTabId)

\* TooSmall with the `||` of line 30 as `&&`.
TooSmallInBoth(cw) == cw.width < MinSplitWidth /\ cw.height < MinSplitHeight

\* Line 30.
TooSmall(cw) == cw.width < MinSplitWidth \/ cw.height < MinSplitHeight

\* Lines 50-64.
HalfWidth(width) == width \div 2
LeftWindowBounds(cw) ==
  [left |-> cw.left, top |-> cw.top, width |-> HalfWidth(cw.width), height |-> cw.height]
\* RightWindowBounds with `left: left` in line 60.
RightWindowBoundsAtLeft(cw) ==
  [left |-> cw.left, top |-> cw.top, width |-> HalfWidth(cw.width), height |-> cw.height]
RightWindowBounds(cw) ==
  [left |-> cw.left + HalfWidth(cw.width), top |-> cw.top,
   width |-> HalfWidth(cw.width), height |-> cw.height]

\* ClosesOriginal with the comparison of line 87 as `< 2`.
ClosesOriginalBelowTwo(cw) == Len(cw.tabs) < 2

\* Lines 86-87: the original window is closed after the split.
ClosesOriginal(cw) == Len(cw.tabs) <= 2

\* splitWindow(leftTabId, rightTabId) up to its first await (lines 14-26).
\* It is entered from the 'splitWindow' message and from quickSplit, whose
\* host calls so far are `log`.
EnterSplitWindow(r, log, leftTabId, rightTabId) ==
  IF InvalidTabIds(leftTabId, rightTabId)
    THEN Finish(r, log, Failure("Invalid tab IDs provided"))
  ELSE IF leftTabId = rightTabId
    THEN Finish(r, log, Failure("Cannot split the same tab"))
  ELSE Await(r, log, GetCurrentCall, "split:getCurrent")

\* case 'splitWindow' (lines 271-274).
SplitWindowMessage(r, tabIds) ==
  /\ CanDeliver(r)
  /\ \E leftTabId \in tabIds, rightTabId \in tabIds :
       /\ msg' = [msg EXCEPT ![r] = Message("splitWindow", leftTabId, rightTabId, Null, 0)]
       /\ loc' = [loc EXCEPT ![r].leftTabId = leftTabId, ![r].rightTabId = rightTabId]
       /\ EnterSplitWindow(r, calls[r], leftTabId, rightTabId)
  /\ UNCHANGED <<referenceWindows, hostVars>>

\* getCurrent settles (lines 26-36).
SplitGetCurrentSettles(r, windows) ==
  /\ pc[r] = "split:getCurrent"
  /\ \/ SettleAndRespond(r, "fail", Failure(GetCurrentError)) /\ UNCHANGED loc
     \/ \E cw \in windows :
          /\ loc' = [loc EXCEPT ![r].cw = cw]
          /\ IF TooSmall(cw)
               THEN SettleAndRespond(r, "ok", Failure("Window too small to split effectively"))
               ELSE SettleAndIssue(r, "ok", GetTabCall(loc[r].leftTabId), "split:getLeftTab")
  /\ UNCHANGED <<referenceWindows, msg, hostVars>>

\* SplitGetLeftTabSettles with a catch (lines 44-47) that does not return.
SplitGetLeftTabSettlesSwallowing(r) ==
  /\ pc[r] = "split:getLeftTab"
  /\ \E outcome \in GetTabOutcomes(loc[r].leftTabId) :
       /\ loc' = [loc EXCEPT ![r].leftTab = IF outcome = "fail" THEN "ok" ELSE outcome]
       /\ SettleAndIssue(r, outcome, GetTabCall(loc[r].rightTabId), "split:getRightTab")
  /\ UNCHANGED <<referenceWindows, msg, hostVars>>

\* tabs.get(leftTabId) settles (lines 36-37, 44-47).
SplitGetLeftTabSettles(r) ==
  /\ pc[r] = "split:getLeftTab"
  /\ \E outcome \in GetTabOutcomes(loc[r].leftTabId) :
       IF outcome = "fail"
         THEN /\ SettleAndRespond(r, "fail", Failure("Invalid tab IDs or tabs not accessible"))
              /\ UNCHANGED loc
         ELSE /\ loc' = [loc EXCEPT ![r].leftTab = outcome]
              /\ SettleAndIssue(r, outcome, GetTabCall(loc[r].rightTabId), "split:getRightTab")
  /\ UNCHANGED <<referenceWindows, msg, hostVars>>

\* tabs.get(rightTabId) settles (lines 37-71).
SplitGetRightTabSettles(r) ==
  /\ pc[r] = "split:getRightTab"
  /\ \E outcome \in GetTabOutcomes(loc[r].rightTabId) :
       IF outcome = "fail"
         THEN SettleAndRespond(r, "fail", Failure("Invalid tab IDs or tabs not accessible"))
       ELSE IF loc[r].leftTab = "none" \/ outcome = "none"
         THEN SettleAndRespond(r, outcome, Failure("One or both tabs not found"))
       ELSE SettleAndIssue(r, outcome,
                           CreateCall(loc[r].leftTabId, LeftWindowBounds(loc[r].cw), TRUE),
                           "split:createLeft")
  /\ UNCHANGED <<referenceWindows, msg, loc, hostVars>>

\* windows.create of the left window settles (lines 67-78).
SplitCreateLeftSettles(r) ==
  /\ pc[r] = "split:createLeft"
  /\ \E outcome \in CreateOutcomes :
       /\ IF outcome = "fail"
            THEN SettleAndRespond(r, "fail", Failure(CreateError)) /\ UNCHANGED loc
            ELSE /\ loc' = [loc EXCEPT ![r].leftWindow = IF outcome = "ok" THEN nextWindowId ELSE -1]
                 /\ SettleAndIssue(r, outcome,
                                   CreateCall(loc[r].rightTabId, RightWindowBounds(loc[r].cw), FALSE),
                                   "split:createRight")
       /\ IF outcome = "ok" THEN HostCreates ELSE UNCHANGED hostVars
  /\ UNCHANGED <<referenceWindows, msg>>

\* SplitSuccess with the two ids of line 91 exchanged.
SplitSuccessExchanged(leftWindow, rightWindow) ==
  [success |-> TRUE, leftWindow |-> rightWindow, rightWindow |-> leftWindow]

\* Line 91.
SplitSuccess(leftWindow, rightWindow) ==
  [success |-> TRUE, leftWindow |-> leftWindow, rightWindow |-> rightWindow]

\* SplitCreateRightSettles with a rollback of the left window when the
\* creation of the right one fails.
SplitCreateRightSettlesRollingBack(r) ==
  /\ pc[r] = "split:createRight"
  /\ \E outcome \in CreateOutcomes :
       /\ IF outcome = "fail"
            THEN /\ SettleAndIssue(r, "fail", RemoveCall(loc[r].leftWindow), "split:remove")
                 /\ UNCHANGED loc
          ELSE IF loc[r].leftWindow = -1 \/ outcome = "none"
            THEN /\ SettleAndRespond(r, outcome, Failure("Failed to create one or both windows"))
                 /\ UNCHANGED loc
          ELSE /\ loc' = [loc EXCEPT ![r].rightWindow = nextWindowId]
               /\ IF Len(loc[r].cw.tabs) <= 2
                    THEN SettleAndIssue(r, "ok", RemoveCall(loc[r].cw.id), "split:remove")
                    ELSE SettleAndRespond(r, "ok", SplitSuccess(loc[r].leftWindow, nextWindowId))
       /\ IF outcome = "ok" THEN HostCreates ELSE UNCHANGED hostVars
  /\ UNCHANGED <<referenceWindows, msg>>

\* windows.create of the right window settles (lines 74-91).
SplitCreateRightSettles(r) ==
  /\ pc[r] = "split:createRight"
  /\ \E outcome \in CreateOutcomes :
       /\ IF outcome = "fail"
            THEN SettleAndRespond(r, "fail", Failure(CreateError)) /\ UNCHANGED loc
          ELSE IF loc[r].leftWindow = -1 \/ outcome = "none"
            THEN /\ SettleAndRespond(r, outcome, Failure("Failed to create one or both windows"))
                 /\ UNCHANGED loc
          ELSE /\ loc' = [loc EXCEPT ![r].rightWindow = nextWindowId]
               /\ IF ClosesOriginal(loc[r].cw)
                    THEN SettleAndIssue(r, "ok", RemoveCall(loc[r].cw.id), "split:remove")
                    ELSE SettleAndRespond(r, "ok", SplitSuccess(loc[r].leftWindow, nextWindowId))
       /\ IF outcome = "ok" THEN HostCreates ELSE UNCHANGED hostVars
  /\ UNCHANGED <<referenceWindows, msg>>

\* windows.remove of the original window settles (lines 88-96).
SplitRemoveSettles(r) ==
  /\ pc[r] = "split:remove"
  /\ \E outcome \in RemoveOutcomes(loc[r].cw.id) :
       IF outcome = "fail"
         THEN SettleAndRespond(r, "fail", Failure(RemoveError)) /\ UNCHANGED hostVars
         ELSE /\ SettleAndRespond(r, "ok", SplitSuccess(loc[r].leftWindow, loc[r].rightWindow))
              /\ HostRemoves(loc[r].cw.id)
  /\ UNCHANGED <<referenceWindows, msg, loc>>

\* ------------------------------------------------- read-only operations
\* What getCurrentWindowTabs returns (lines 104-110).
CurrentTabsOrEmpty(failed, cw) == IF failed THEN <<>> ELSE cw.tabs

\* case 'getCurrentWindowTabs' (lines 266-269) up to the await in line 105.
GetCurrentWindowTabsMessage(r) ==
  /\ CanDeliver(r)
  /\ msg' = [msg EXCEPT ![r] = Message("getCurrentWindowTabs", Null, Null, Null, 0)]
  /\ Issue(r, GetCurrentCall, "tabs:getCurrent")
  /\ UNCHANGED <<referenceWindows, loc, hostVars>>

GetCurrentWindowTabsSettles(r, windows) ==
  /\ pc[r] = "tabs:getCurrent"
  /\ \/ SettleAndRespond(r, "fail", [success |-> TRUE, data |-> CurrentTabsOrEmpty(TRUE, NoWindow)])
     \/ \E cw \in windows :
          SettleAndRespond(r, "ok", [success |-> TRUE, data |-> CurrentTabsOrEmpty(FALSE, cw)])
  /\ UNCHANGED <<referenceWindows, msg, loc, hostVars>>

\* case 'getTabInfo' (lines 276-279) up to the await in line 120.
GetTabInfoMessage(r, tabIds) ==
  /\ CanDeliver(r)
  /\ \E tabId \in tabIds :
       /\ msg' = [msg EXCEPT ![r] = Message("getTabInfo", Null, Null, tabId, 0)]
       /\ Issue(r, GetTabCall(tabId), "info:getTab")
  /\ UNCHANGED <<referenceWindows, loc, hostVars>>

\* What getTabInfo returns (lines 119-124): the tab, here its id, or null.
TabInfoOrNull(outcome, tabId) == IF outcome = "ok" THEN tabId ELSE Null

GetTabInfoSettles(r) ==
  /\ pc[r] = "info:getTab"
  /\ \E outcome \in GetTabOutcomes(msg[r].tabId) :
       SettleAndRespond(r, outcome, [success |-> TRUE, data |-> TabInfoOrNull(outcome, msg[r].tabId)])
  /\ UNCHANGED <<referenceWindows, msg, loc, hostVars>>

\* -------------------------------------------------------------- quickSplit
\* case 'quickSplit' up to the await in line 105.
QuickSplitMessage(r) ==
  /\ CanDeliver(r)
  /\ msg' = [msg EXCEPT ![r] = Message("quickSplit", Null, Null, Null, 0)]
  /\ Issue(r, GetCurrentCall, "quick:getCurrent")
  /\ UNCHANGED <<referenceWindows, loc, hostVars>>

\* FindActiveIndex that falls back to the first tab when none is active.
FindActiveIndexOrFirst(tabs) ==
  IF \E i \in 1..Len(tabs) : tabs[i].active
    THEN CHOOSE i \in 1..Len(tabs) : tabs[i].active /\ \A j \in 1..(i - 1) : ~tabs[j].active
    ELSE 1

\* quickSplitTabs.findIndex(tab => tab.active), 1-based; 0 when there is none
\* (line 284, where it is -1).
FindActiveIndex(tabs) ==
  IF \E i \in 1..Len(tabs) : tabs[i].active
    THEN CHOOSE i \in 1..Len(tabs) : tabs[i].active /\ \A j \in 1..(i - 1) : ~tabs[j].active
    ELSE 0

\* RightTabIndex without the `|| quickSplitTabs[0]` wrap-around of line 286.
RightTabIndexNoWrap(tabs, currentIndex) ==
  IF currentIndex + 1 <= Len(tabs) THEN currentIndex + 1 ELSE currentIndex

\* quickSplitTabs[currentIndex + 1] || quickSplitTabs[0] (line 286), as a
\* 1-based index into tabs.
RightTabIndex(tabs, currentIndex) ==
  IF currentIndex + 1 <= Len(tabs) THEN currentIndex + 1 ELSE 1

\* QuickSplitWith with the test of line 283 as `length >= 1`.
QuickSplitWithOneTab(r, log, tabs) ==
  LET currentIndex == FindActiveIndex(tabs)
  IN IF Len(tabs) < 1
       THEN /\ Finish(r, log, Failure("Need at least 2 tabs to split"))
            /\ loc' = [loc EXCEPT ![r].tabs = tabs]
     ELSE IF currentIndex = 0
       THEN /\ Finish(r, log, Failure(TypeErrorMessage))
            /\ loc' = [loc EXCEPT ![r].tabs = tabs]
     ELSE LET leftTabId == Num(tabs[currentIndex].id)
              rightTabId == Num(tabs[RightTabIndex(tabs, currentIndex)].id)
          IN /\ loc' = [loc EXCEPT ![r].tabs = tabs, ![r].leftTabId = leftTabId,
                                   ![r].rightTabId = rightTabId]
             /\ EnterSplitWindow(r, log, leftTabId, rightTabId)

\* QuickSplitWith without the catch of lines 317-320: the TypeError of
\* leftTab.id rejects the promise of the listener and nothing is sent.
QuickSplitWithUncaught(r, log, tabs) ==
  LET currentIndex == FindActiveIndex(tabs)
  IN IF Len(tabs) < 2
       THEN /\ Finish(r, log, Failure("Need at least 2 tabs to split"))
            /\ loc' = [loc EXCEPT ![r].tabs = tabs]
     ELSE IF currentIndex = 0
       THEN /\ calls' = [calls EXCEPT ![r] = log]
            /\ pc' = [pc EXCEPT ![r] = "rejected"]
            /\ sent' = sent
            /\ loc' = [loc EXCEPT ![r].tabs = tabs]
     ELSE LET leftTabId == Num(tabs[currentIndex].id)
              rightTabId == Num(tabs[RightTabIndex(tabs, currentIndex)].id)
          IN /\ loc' = [loc EXCEPT ![r].tabs = tabs, ![r].leftTabId = leftTabId,
                                   ![r].rightTabId = rightTabId]
             /\ EnterSplitWindow(r, log, leftTabId, rightTabId)

\* Lines 283-291 with quickSplitTabs = tabs, and splitWindow to its first
\* await; `log` are the host calls so far.
QuickSplitWith(r, log, tabs) ==
  LET currentIndex == FindActiveIndex(tabs)
  IN IF Len(tabs) < 2
       THEN /\ Finish(r, log, Failure("Need at least 2 tabs to split"))
            /\ loc' = [loc EXCEPT ![r].tabs = tabs]
     ELSE IF currentIndex = 0
       \* leftTab is undefined and leftTab.id throws; the catch in line 317.
       THEN /\ Finish(r, log, Failure(TypeErrorMessage))
            /\ loc' = [loc EXCEPT ![r].tabs = tabs]
     ELSE LET leftTabId == Num(tabs[currentIndex].id)
              rightTabId == Num(tabs[RightTabIndex(tabs, currentIndex)].id)
          IN /\ loc' = [loc EXCEPT ![r].tabs = tabs, ![r].leftTabId = leftTabId,
                                   ![r].rightTabId = rightTabId]
             /\ EnterSplitWindow(r, log, leftTabId, rightTabId)

QuickSplitGetCurrentSettles(r, windows) ==
  /\ pc[r] = "quick:getCurrent"
  /\ \/ QuickSplitWith(r, Settled(r, "fail"), CurrentTabsOrEmpty(TRUE, NoWindow))
     \/ \E cw \in windows : QuickSplitWith(r, Settled(r, "ok"), CurrentTabsOrEmpty(FALSE, cw))
  /\ UNCHANGED <<referenceWindows, msg, hostVars>>

\* --------------------------------------------------- createReferenceWindow
\* Line 135: the guard that rejects the tab id.
InvalidTabId(tabId) == Falsy(tabId) \/ ~TypeofNumber(tabId)

\* LimitReached with the comparison of line 140 as `> 3`.
LimitReachedAboveThree(registry) == Cardinality(registry) > MaxReferenceWindows

\* Line 140.
LimitReached(registry) == Cardinality(registry) >= MaxReferenceWindows

\* ReferenceBounds with `referenceLeft = left` in line 163.
ReferenceBoundsAtLeft(cw) ==
  [left |-> cw.left, top |-> cw.top, width |-> cw.width \div 5, height |-> cw.height]

\* Lines 159-164; Math.floor(width * 0.2) is width \div 5 for widths >= 0.
ReferenceBounds(cw) ==
  [left |-> cw.left + cw.width, top |-> cw.top, width |-> cw.width \div 5, height |-> cw.height]

\* case 'createReferenceWindow' (lines 294-297) up to the await in line 146.
CreateReferenceWindowMessage(r, tabIds) ==
  /\ CanDeliver(r)
  /\ \E tabId \in tabIds :
       /\ msg' = [msg EXCEPT ![r] = Message("createReferenceWindow", Null, Null, tabId, 0)]
       /\ IF InvalidTabId(tabId)
            THEN Respond(r, Failure("Invalid tab ID provided"))
          ELSE IF LimitReached(referenceWindows)
            THEN Respond(r, Failure("Maximum of 3 reference windows allowed"))
          ELSE Issue(r, GetTabCall(tabId), "ref:getTab")
  /\ UNCHANGED <<referenceWindows, loc, hostVars>>

\* tabs.get(tabId) settles (lines 146-155).
RefGetTabSettles(r) ==
  /\ pc[r] = "ref:getTab"
  /\ \E outcome \in GetTabOutcomes(msg[r].tabId) :
       IF outcome = "fail"
         THEN SettleAndRespond(r, "fail", Failure("Tab not accessible"))
       ELSE IF outcome = "none"
         THEN SettleAndRespond(r, "none", Failure("Tab not found"))
       ELSE SettleAndIssue(r, "ok", GetCurrentCall, "ref:getCurrent")
  /\ UNCHANGED <<referenceWindows, msg, loc, hostVars>>

\* getCurrent settles (lines 155-175).
RefGetCurrentSettles(r, windows) ==
  /\ pc[r] = "ref:getCurrent"
  /\ \/ SettleAndRespond(r, "fail", Failure(GetCurrentError)) /\ UNCHANGED loc
     \/ \E cw \in windows :
          /\ loc' = [loc EXCEPT ![r].cw = cw]
          /\ SettleAndIssue(r, "ok", CreateCall(msg[r].tabId, ReferenceBounds(cw), FALSE), "ref:create")
  /\ UNCHANGED <<referenceWindows, msg, hostVars>>

\* ReferenceSuccess with `windowId: tabId` in line 189.
ReferenceSuccessOfTab(windowId, tabId, bounds) ==
  [success |-> TRUE, windowId |-> tabId.n, tabId |-> tabId,
   dimensions |-> [width |-> bounds.width, height |-> bounds.height]]

\* Lines 187-192.
ReferenceSuccess(windowId, tabId, bounds) ==
  [success |-> TRUE, windowId |-> windowId, tabId |-> tabId,
   dimensions |-> [width |-> bounds.width, height |-> bounds.height]]

\* windows.create settles (lines 167-197).
RefCreateSettles(r) ==
  /\ pc[r] = "ref:create"
  /\ \E outcome \in CreateOutcomes :
       IF outcome = "fail"
         THEN /\ SettleAndRespond(r, "fail", Failure(CreateError))
              /\ UNCHANGED <<referenceWindows, hostVars>>
       ELSE IF outcome = "none"
         \* referenceWindow.id throws; the catch in line 194.
         THEN /\ SettleAndRespond(r, "none", Failure(TypeErrorMessage))
              /\ UNCHANGED <<referenceWindows, hostVars>>
       ELSE /\ referenceWindows' = referenceWindows \cup {nextWindowId}
            /\ SettleAndRespond(r, "ok",
                 ReferenceSuccess(nextWindowId, msg[r].tabId, ReferenceBounds(loc[r].cw)))
            /\ HostCreatesReference
  /\ UNCHANGED <<msg, loc>>

\* ---------------------------------------------------- closeReferenceWindow
\* CloseReferenceWindowMessage without the test of lines 207-209.
CloseReferenceWindowMessageUnchecked(r, windowIds) ==
  /\ CanDeliver(r)
  /\ \E windowId \in windowIds :
       /\ msg' = [msg EXCEPT ![r] = Message("closeReferenceWindow", Null, Null, Null, windowId)]
       /\ Issue(r, RemoveCall(windowId), "close:remove")
  /\ UNCHANGED <<referenceWindows, loc, hostVars>>

\* case 'closeReferenceWindow' (lines 299-302) up to the await in line 211.
CloseReferenceWindowMessage(r, windowIds) ==
  /\ CanDeliver(r)
  /\ \E windowId \in windowIds :
       /\ msg' = [msg EXCEPT ![r] = Message("closeReferenceWindow", Null, Null, Null, windowId)]
       /\ IF windowId \notin referenceWindows
            THEN Respond(r, Failure("Window is not a tracked reference window"))
            ELSE Issue(r, RemoveCall(windowId), "close:remove")
  /\ UNCHANGED <<referenceWindows, loc, hostVars>>

\* The registry after windows.remove(windowId) settled (lines 211-219).
RegistryAfterClose(registry, windowId, outcome) ==
  IF outcome = "ok" THEN registry \ {windowId} ELSE registry

\* windows.remove settles (lines 211-220).
CloseRemoveSettles(r) ==
  /\ pc[r] = "close:remove"
  /\ \E outcome \in RemoveOutcomes(msg[r].windowId) :
       /\ referenceWindows' = RegistryAfterClose(referenceWindows, msg[r].windowId, outcome)
       /\ IF outcome = "fail"
            THEN SettleAndRespond(r, "fail", Failure(RemoveError)) /\ UNCHANGED hostVars
            ELSE /\ SettleAndRespond(r, "ok", [success |-> TRUE, windowId |-> msg[r].windowId])
                 /\ HostRemoves(msg[r].windowId)
  /\ UNCHANGED <<msg, loc>>

\* ------------------------------------------------ closeAllReferenceWindows
\* Array.from(referenceWindows): the ids in insertion order, which is the
\* order of their creation.
RECURSIVE ArrayFrom(_)
ArrayFrom(set) ==
  IF set = {} THEN <<>>
  ELSE LET least == CHOOSE x \in set : \A y \in set : x <= y
       IN <<least>> \o ArrayFrom(set \ {least})

\* ClosePromise without the .catch of lines 230-233.
ClosePromiseUncaught(outcome) == IF outcome = "fail" THEN "rejected" ELSE "fulfilled"

\* One element of closePromises (lines 230-233): how the promise of
\* windows.remove(...).catch(...) settles.
ClosePromise(outcome) == IF outcome = "fail" THEN "fulfilled:null" ELSE "fulfilled"

\* Lines 237-241.
CloseAllFinishes(r, log) ==
  /\ referenceWindows' = {}
  /\ Finish(r, log, [success |-> TRUE, closedCount |-> Cardinality(referenceWindows)])

\* case 'closeAllReferenceWindows' (lines 304-307) up to the await in line
\* 236.  Promise.all of no promises resumes the handler at once.
CloseAllReferenceWindowsMessage(r) ==
  /\ CanDeliver(r)
  /\ msg' = [msg EXCEPT ![r] = Message("closeAllReferenceWindows", Null, Null, Null, 0)]
  /\ LET ids == ArrayFrom(referenceWindows)
         log == [i \in 1..Len(ids) |-> RemoveCall(ids[i]) @@ [result |-> "pending"]]
     IN IF ids = <<>>
          THEN CloseAllFinishes(r, calls[r]) /\ UNCHANGED loc
          ELSE /\ calls' = [calls EXCEPT ![r] = log]
               /\ pc' = [pc EXCEPT ![r] = "all:await"]
               /\ loc' = [loc EXCEPT ![r].pending = referenceWindows]
               /\ UNCHANGED <<referenceWindows, sent>>
  /\ UNCHANGED hostVars

\* One of the pending windows.remove calls settles (lines 229-236, 243-246).
CloseAllRemovalSettles(r) ==
  /\ pc[r] = "all:await"
  /\ \E windowId \in loc[r].pending, outcome \in {"ok", "fail"} :
       /\ outcome \in RemoveOutcomes(windowId)
       /\ LET i == CHOOSE j \in 1..Len(calls[r]) : calls[r][j].windowId = windowId
              log == [calls[r] EXCEPT ![i].result = outcome]
          IN IF ClosePromise(outcome) = "rejected"
               \* Promise.all rejects and the catch in line 243 responds.
               THEN Finish(r, log, Failure(RemoveError)) /\ UNCHANGED loc
               ELSE /\ calls' = [calls EXCEPT ![r] = log]
                    /\ loc' = [loc EXCEPT ![r].pending = @ \ {windowId}]
                    /\ UNCHANGED <<pc, sent>>
       /\ IF outcome = "ok" THEN HostRemoves(windowId) ELSE UNCHANGED hostVars
  /\ UNCHANGED <<referenceWindows, msg>>

\* Every close promise is fulfilled: Promise.all resumes the handler.
CloseAllResumes(r) ==
  /\ pc[r] = "all:await"
  /\ loc[r].pending = {}
  /\ CloseAllFinishes(r, calls[r])
  /\ UNCHANGED <<msg, loc, hostVars>>

\* ------------------------------------------------------- other operations
\* case 'getReferenceWindows' (lines 253-259, 309-312).
GetReferenceWindowsMessage(r) ==
  /\ CanDeliver(r)
  /\ msg' = [msg EXCEPT ![r] = Message("getReferenceWindows", Null, Null, Null, 0)]
  /\ Respond(r, [success |-> TRUE, windows |-> referenceWindows,
                 count |-> Cardinality(referenceWindows)])
  /\ UNCHANGED <<referenceWindows, loc, hostVars>>

\* default (lines 314-315).
UnknownMessage(r) ==
  /\ CanDeliver(r)
  /\ msg' = [msg EXCEPT ![r] = Message("unknown", Null, Null, Null, 0)]
  /\ Respond(r, Failure("Unknown action"))
  /\ UNCHANGED <<referenceWindows, loc, hostVars>>

\* ------------------------------------------------------------ host events
\* RegistryAfterRemoved with `clear()` for `delete(windowId)` in line 330.
RegistryAfterRemovedClearing(registry, windowId) ==
  IF windowId \in registry THEN {} ELSE registry

\* The registry after the onRemoved listener ran (lines 328-333).
RegistryAfterRemoved(registry, windowId) ==
  IF windowId \in registry THEN registry \ {windowId} ELSE registry

\* chrome.windows.onRemoved delivers the closing of windowId.
OnWindowRemoved(windowId) ==
  /\ windowId \in events
  /\ events' = events \ {windowId}
  /\ referenceWindows' = RegistryAfterRemoved(referenceWindows, windowId)
  /\ UNCHANGED <<pc, msg, loc, calls, sent, hostWindows, nextWindowId>>

\* The user closes a reference window.
UserClosesWindow(windowId) ==
  /\ windowId \in hostWindows
  /\ HostRemoves(windowId)
  /\ UNCHANGED <<referenceWindows, pc, msg, loc, calls, sent>>

\* --------------------------------------------------------- specifications
\* Tab ids a message may carry: null, 0, two known tabs, an unknown tab, a
\* number that is no integer, and a string.
TabIdInputs == {Null, Num(0), Num(11), Num(12), Num(UnknownTabId), Half(11), Str(11)}
\* Tab ids of the reference-window messages of SpecRef.
RefTabIdInputs == {Null, Num(11), Num(UnknownTabId)}
WindowIdInputs == 1..MaxWindowId

\* Every operation and the host's events, for one request at a time.
Next ==
  \/ \E r \in {1} :
       \/ SplitWindowMessage(r, TabIdInputs)
       \/ SplitGetCurrentSettles(r, CurrentWindows)
       \/ SplitGetLeftTabSettles(r)
       \/ SplitGetRightTabSettles(r)
       \/ SplitCreateLeftSettles(r)
       \/ SplitCreateRightSettles(r)
       \/ SplitRemoveSettles(r)
       \/ GetCurrentWindowTabsMessage(r)
       \/ GetCurrentWindowTabsSettles(r, CurrentWindows)
       \/ GetTabInfoMessage(r, TabIdInputs)
       \/ GetTabInfoSettles(r)
       \/ QuickSplitMessage(r)
       \/ QuickSplitGetCurrentSettles(r, CurrentWindows)
       \/ CreateReferenceWindowMessage(r, TabIdInputs)
       \/ RefGetTabSettles(r)
       \/ RefGetCurrentSettles(r, CurrentWindows)
       \/ RefCreateSettles(r)
       \/ CloseReferenceWindowMessage(r, WindowIdInputs)
       \/ CloseRemoveSettles(r)
       \/ CloseAllReferenceWindowsMessage(r)
       \/ CloseAllRemovalSettles(r)
       \/ CloseAllResumes(r)
       \/ GetReferenceWindowsMessage(r)
       \/ UnknownMessage(r)
  \/ \E windowId \in {OriginWindowId} \cup WindowIdInputs :
       \/ OnWindowRemoved(windowId)
       \/ UserClosesWindow(windowId)

Spec == Init /\ [][Next]_vars

\* The reference-window operations and the host's events, for MaxRequests
\* concurrent requests.
NextRef ==
  \/ \E r \in Requests :
       \/ CreateReferenceWindowMessage(r, RefTabIdInputs)
       \/ RefGetTabSettles(r)
       \/ RefGetCurrentSettles(r, PlainWindows)
       \/ RefCreateSettles(r)
       \/ CloseReferenceWindowMessage(r, WindowIdInputs)
       \/ CloseRemoveSettles(r)
       \/ CloseAllReferenceWindowsMessage(r)
       \/ CloseAllRemovalSettles(r)
       \/ CloseAllResumes(r)
  \/ \E windowId \in WindowIdInputs :
       \/ OnWindowRemoved(windowId)
       \/ UserClosesWindow(windowId)

SpecRef == Init /\ [][NextRef]_vars

\* Tab ids and current windows of SpecLive: windows that can be split,
\* with two tabs and with three, one whose snapshot shows no active tab,
\* and one that is too narrow, with one tab.
LiveTabIdInputs == {Null, Num(11), Num(12), Num(UnknownTabId)}
LiveWindows ==
  {WindowDescriptor(30, 20, MinSplitWidth + 1, MinSplitHeight, TabList(2, 1)),
   WindowDescriptor(30, 20, MinSplitWidth, MinSplitHeight, TabList(3, 3)),
   WindowDescriptor(30, 20, MinSplitWidth, MinSplitHeight, TabList(2, 0)),
   WindowDescriptor(30, 20, MinSplitWidth - 1, MinSplitHeight, TabList(1, 1))}

\* Every operation and the host's events, for one request at a time.
NextLive ==
  \/ \E r \in {1} :
       \/ SplitWindowMessage(r, LiveTabIdInputs)
       \/ SplitGetCurrentSettles(r, LiveWindows)
       \/ SplitGetLeftTabSettles(r)
       \/ SplitGetRightTabSettles(r)
       \/ SplitCreateLeftSettles(r)
       \/ SplitCreateRightSettles(r)
       \/ SplitRemoveSettles(r)
       \/ GetCurrentWindowTabsMessage(r)
       \/ GetCurrentWindowTabsSettles(r, LiveWindows)
       \/ GetTabInfoMessage(r, LiveTabIdInputs)
       \/ GetTabInfoSettles(r)
       \/ QuickSplitMessage(r)
       \/ QuickSplitGetCurrentSettles(r, LiveWindows)
       \/ CreateReferenceWindowMessage(r, LiveTabIdInputs)
       \/ RefGetTabSettles(r)
       \/ RefGetCurrentSettles(r, LiveWindows)
       \/ RefCreateSettles(r)
       \/ CloseReferenceWindowMessage(r, WindowIdInputs)
       \/ CloseRemoveSettles(r)
       \/ CloseAllReferenceWindowsMessage(r)
       \/ CloseAllRemovalSettles(r)
       \/ CloseAllResumes(r)
       \/ GetReferenceWindowsMessage(r)
       \/ UnknownMessage(r)
  \/ \E windowId \in {OriginWindowId} \cup WindowIdInputs :
       \/ OnWindowRemoved(windowId)
       \/ UserClosesWindow(windowId)

\* The host settles the call the handler of r awaits, and the event loop
\* resumes the handler.
HostSettles(r) ==
  \/ SplitGetCurrentSettles(r, LiveWindows)
  \/ SplitGetLeftTabSettles(r)
  \/ SplitGetRightTabSettles(r)
  \/ SplitCreateLeftSettles(r)
  \/ SplitCreateRightSettles(r)
  \/ SplitRemoveSettles(r)
  \/ GetCurrentWindowTabsSettles(r, LiveWindows)
  \/ GetTabInfoSettles(r)
  \/ QuickSplitGetCurrentSettles(r, LiveWindows)
  \/ RefGetTabSettles(r)
  \/ RefGetCurrentSettles(r, LiveWindows)
  \/ RefCreateSettles(r)
  \/ CloseRemoveSettles(r)
  \/ CloseAllRemovalSettles(r)
  \/ CloseAllResumes(r)

\* Every host call eventually returns or fails.
SpecLive == Init /\ [][NextLive]_vars /\ \A r \in Requests : WF_vars(HostSettles(r))

\* ------------------------------------------------------------- properties
IsSplit(r) == msg[r].action \in {"splitWindow", "quickSplit"}
Done(r, action) == pc[r] = "done" /\ msg[r].action = action
Response(r) == sent[r][1]
CallsOf(r, op) == {i \in 1..Len(calls[r]) : calls[r][i].op = op}

\* C1: the two rectangles splitWindow passes to windows.create have widths
\* that sum to the width of the current window.
C1_WidthsSumToOriginal ==
  \A r \in Requests :
    IsSplit(r) =>
      \A i, j \in CallsOf(r, "windows.create") :
        i < j => calls[r][i].width + calls[r][j].width = loc[r].cw.width

\* C2: the registry never holds more than 3 entries.
C2_AtMostThreeTracked == Cardinality(referenceWindows) <= MaxReferenceWindows

\* C3: once closeReferenceWindow(windowId) of a tracked window has
\* completed, windowId is no longer tracked, whatever windows.remove did.
C3_CloseDeletesUnconditionally ==
  \A r \in Requests :
    (Done(r, "closeReferenceWindow") /\ calls[r] # <<>>) =>
      msg[r].windowId \notin referenceWindows

\* C4: the step in which a closeAllReferenceWindows call completes leaves
\* the registry empty.
C4_CloseAllLeavesRegistryEmpty ==
  [][\A r \in Requests :
       (pc[r] # "done" /\ pc'[r] = "done" /\ msg'[r].action = "closeAllReferenceWindows")
         => referenceWindows' = {}]_vars

\* A closeAllReferenceWindows call has completed after each of the removals
\* of 3 tracked windows failed.
C4_Witness ==
  \E r \in Requests :
    /\ Done(r, "closeAllReferenceWindows")
    /\ Len(calls[r]) = MaxReferenceWindows
    /\ \A i \in 1..Len(calls[r]) : calls[r][i].result = "fail"
    /\ referenceWindows = {}

\* C5: closedCount is the number of windows closeAllReferenceWindows asked
\* the host to remove, which are the windows tracked when it was called.
C5_ClosedCountIsTrackedCount ==
  \A r \in Requests :
    (Done(r, "closeAllReferenceWindows") /\ Response(r).success) =>
      Response(r).closedCount = Len(calls[r])

\* A createReferenceWindow call made with 3 windows tracked responds at once
\* with a failure, issues no host call and leaves the registry: the limit
\* error for a tab id that is a nonzero number, `invalidError` for any other.
RejectedAtLimit(invalidError) ==
  \A r \in Requests :
    (/\ pc[r] = "idle"
     /\ pc'[r] # "idle"
     /\ msg'[r].action = "createReferenceWindow"
     /\ Cardinality(referenceWindows) = MaxReferenceWindows)
    => /\ pc'[r] = "done"
       /\ sent'[r] = << Failure(IF msg'[r].tabId.type = "number" /\ msg'[r].tabId # Num(0)
                                  THEN "Maximum of 3 reference windows allowed"
                                  ELSE invalidError) >>
       /\ calls'[r] = <<>>
       /\ referenceWindows' = referenceWindows

\* C6 as stated: createReferenceWindow with 3 windows tracked fails with the
\* limit error for every tab id, issues no host call and leaves the registry.
C6_AlwaysLimitReached ==
  [][RejectedAtLimit("Maximum of 3 reference windows allowed")]_vars

\* C6 amended: createReferenceWindow with 3 windows tracked fails with the
\* limit error for every tab id that is a nonzero number (known to the host
\* or not) and with the invalid-input error for every other tab id; in both
\* cases it issues no host call and leaves the registry unchanged.
C6_LimitReachedForNumbers ==
  [][RejectedAtLimit("Invalid tab ID provided")]_vars

\* A createReferenceWindow call for a tab the host does not know was
\* rejected with the limit error while 3 windows were tracked.
C6_Witness ==
  \E r \in Requests :
    /\ Done(r, "createReferenceWindow")
    /\ msg[r].tabId = Num(UnknownTabId)
    /\ Response(r) = Failure("Maximum of 3 reference windows allowed")
    /\ calls[r] = <<>>
    /\ Cardinality(referenceWindows) = MaxReferenceWindows

\* The message of the host's failure of call `op`.
HostMessage(op) ==
  CASE op = "windows.getCurrent" -> GetCurrentError
    [] op = "tabs.get" -> GetTabError
    [] op = "windows.create" -> CreateError
    [] op = "windows.remove" -> RemoveError

\* C7: an operation of the request surface in which a host call failed
\* (other than the tab lookup that validates a tab id) responds with
\* success = false and the host's message.
C7_HostFailureIsReported ==
  \A r \in Requests :
    (/\ pc[r] = "done"
     /\ msg[r].action \in {"splitWindow", "quickSplit", "createReferenceWindow",
                           "closeReferenceWindow", "getCurrentWindowTabs", "getTabInfo"})
    => \A i \in 1..Len(calls[r]) :
         (/\ calls[r][i].result = "fail"
          /\ ~(calls[r][i].op = "tabs.get" /\ msg[r].action # "getTabInfo"))
         => Response(r) = Failure(HostMessage(calls[r][i].op))

\* C8: quickSplit on at least 2 tabs of which one is active calls splitWindow
\* with the active tab as left and the tab after it, or the first tab when
\* the active one is last, as right.
C8_QuickSplitPicksActiveAndNext ==
  \A r \in Requests :
    LET tabs == loc[r].tabs
        active == {i \in 1..Len(tabs) : tabs[i].active}
    IN (/\ msg[r].action = "quickSplit"
        /\ pc[r] \notin {"idle", "quick:getCurrent"}
        /\ Len(tabs) >= 2
        /\ Cardinality(active) = 1)
       => \A i \in active :
            /\ loc[r].leftTabId = Num(tabs[i].id)
            /\ loc[r].rightTabId = Num(tabs[IF i = Len(tabs) THEN 1 ELSE i + 1].id)
            /\ Len(calls[r]) >= 2
            /\ calls[r][2].op = "windows.getCurrent"

\* quickSplit on tabs [A, B(active)] has split (B, A).
C8_Witness ==
  \E r \in Requests :
    /\ Done(r, "quickSplit")
    /\ loc[r].tabs = TabList(2, 2)
    /\ loc[r].leftTabId = Num(12)
    /\ loc[r].rightTabId = Num(11)
    /\ Response(r).success

C10_BadIdsRejectedWithoutHostCall ==
  \A r \in Requests :
    (/\ msg[r].action = "splitWindow"
     /\ pc[r] # "idle"
     /\ \/ msg[r].leftTabId = msg[r].rightTabId
        \/ ~IsInteger(msg[r].leftTabId)
        \/ ~IsInteger(msg[r].rightTabId))
    => /\ pc[r] = "done"
       /\ Response(r) \in {Failure("Invalid tab IDs provided"), Failure("Cannot split the same tab")}
       /\ calls[r] = <<>>

\* C11: the rectangles splitWindow requests have the top and the height of
\* the current window; the left one starts at its left with width
\* floor(width / 2) and the right one starts where the left one ends.
C11_RectanglesAdjoin ==
  \A r \in Requests :
    IsSplit(r) =>
      \A i, j \in CallsOf(r, "windows.create") :
        i < j =>
          LET cw == loc[r].cw
              leftRect == calls[r][i]
              rightRect == calls[r][j]
          IN /\ leftRect.top = cw.top /\ rightRect.top = cw.top
             /\ leftRect.height = cw.height /\ rightRect.height = cw.height
             /\ leftRect.left = cw.left
             /\ leftRect.width = cw.width \div 2
             /\ rightRect.left = leftRect.left + leftRect.width

\* splitWindow has requested both rectangles for a window of odd width.
C11_Witness ==
  \E r \in Requests :
    /\ IsSplit(r)
    /\ Cardinality(CallsOf(r, "windows.create")) = 2
    /\ loc[r].cw.width = MinSplitWidth + 1

\* C12: splitWindow that has fetched a current window narrower than 400 or
\* lower than 300 has failed with the too-small error without asking for a
\* window creation or removal; for any other window it never fails with it.
C12_TooSmallExactlyBelowThreshold ==
  \A r \in Requests :
    (IsSplit(r) /\ loc[r].cw # NoWindow) =>
      IF loc[r].cw.width < MinSplitWidth \/ loc[r].cw.height < MinSplitHeight
        THEN /\ pc[r] = "done"
             /\ Response(r) = Failure("Window too small to split effectively")
             /\ CallsOf(r, "windows.create") = {}
             /\ CallsOf(r, "windows.remove") = {}
        ELSE pc[r] = "done" => Response(r) # Failure("Window too small to split effectively")

\* splitWindow has failed on a window wide enough but one pixel too low.
C12_Witness ==
  \E r \in Requests :
    /\ Done(r, "splitWindow")
    /\ loc[r].cw.width >= MinSplitWidth
    /\ loc[r].cw.height = MinSplitHeight - 1
    /\ Response(r) = Failure("Window too small to split effectively")

\* C13: when a tab lookup of splitWindow failed, the call has failed with the
\* tab-not-found error and that lookup is the last host call it issued: no
\* retry, no window creation, no removal.
C13_LookupFailureIsTerminal ==
  \A r \in Requests :
    IsSplit(r) =>
      \A i \in CallsOf(r, "tabs.get") :
        calls[r][i].result = "fail" =>
          /\ pc[r] = "done"
          /\ Response(r) = Failure("Invalid tab IDs or tabs not accessible")
          /\ i = Len(calls[r])
          /\ CallsOf(r, "windows.create") = {}
          /\ CallsOf(r, "windows.remove") = {}

\* splitWindow(11, unknown tab) has failed at the lookup of the right tab.
C13_Witness ==
  \E r \in Requests :
    /\ Done(r, "splitWindow")
    /\ msg[r].rightTabId = Num(UnknownTabId)
    /\ Len(calls[r]) = 3
    /\ calls[r][2].result = "ok"
    /\ calls[r][3] = [op |-> "tabs.get", tabId |-> Num(UnknownTabId), result |-> "fail"]

\* C14: when a window creation of splitWindow failed, the call has failed
\* with the host's message and that creation is the last host call it
\* issued: no removal of the left window, none of the original window.
C14_CreationFailureIsTerminal ==
  \A r \in Requests :
    IsSplit(r) =>
      \A i \in CallsOf(r, "windows.create") :
        calls[r][i].result = "fail" =>
          /\ pc[r] = "done"
          /\ Response(r) = Failure(CreateError)
          /\ i = Len(calls[r])
          /\ CallsOf(r, "windows.remove") = {}

\* The left window was created and the creation of the right one failed.
C14_Witness ==
  \E r \in Requests :
    /\ Done(r, "splitWindow")
    /\ Len(calls[r]) = 5
    /\ calls[r][4].op = "windows.create" /\ calls[r][4].result = "ok"
    /\ calls[r][5].op = "windows.create" /\ calls[r][5].result = "fail"
    /\ loc[r].leftWindow > 0

\* C15: the onRemoved listener for window w leaves the registry as it was
\* minus w, whether w was tracked or not, and issues no host call and no
\* response.
C15_RemovedEventDeletesOnlyItsWindow ==
  [][\A w \in events :
       w \notin events' =>
         /\ referenceWindows' = referenceWindows \ {w}
         /\ calls' = calls
         /\ sent' = sent
         /\ pc' = pc]_vars

\* Before any request, the user closed a tracked window, its event was
\* delivered and the other tracked windows are still in the registry.
C15_Witness ==
  /\ \A r \in Requests : pc[r] = "idle"
  /\ referenceWindows # {}
  /\ \E w \in 1..(nextWindowId - 1) : w \notin hostWindows \cup events \cup referenceWindows

\* C16: the step that completes a createReferenceWindow with success adds
\* to the registry exactly the id of the window the host created in that
\* step and returns that id; every other step of a createReferenceWindow,
\* the ones that complete it with a failure included, leaves the registry
\* unchanged.
C16_CreateAddsExactlyTheNewWindow ==
  [][\A r \in Requests :
       (msg'[r].action = "createReferenceWindow" /\ pc'[r] # pc[r]) =>
         IF pc'[r] = "done" /\ sent'[r][1].success
           THEN /\ hostWindows' \ hostWindows = {sent'[r][1].windowId}
                /\ sent'[r][1].windowId \notin referenceWindows
                /\ referenceWindows' = referenceWindows \cup {sent'[r][1].windowId}
           ELSE referenceWindows' = referenceWindows]_vars

\* A createReferenceWindow has succeeded and its window is tracked next to
\* an older one.
C16_Witness ==
  \E r \in Requests :
    /\ Done(r, "createReferenceWindow")
    /\ Response(r).success
    /\ Response(r).windowId \in referenceWindows
    /\ Cardinality(referenceWindows) >= 2

\* C17: closeReferenceWindow delivered with a window id that is not in the
\* registry fails at once with the not-tracked error, issues no host call
\* and leaves the registry unchanged.
C17_UntrackedCloseIsRejected ==
  [][\A r \in Requests :
       (/\ pc[r] = "idle"
        /\ msg'[r].action = "closeReferenceWindow"
        /\ msg'[r].windowId \notin referenceWindows)
       => /\ pc'[r] = "done"
          /\ sent'[r] = <<Failure("Window is not a tracked reference window")>>
          /\ calls'[r] = <<>>
          /\ referenceWindows' = referenceWindows]_vars

\* closeReferenceWindow of an untracked id was rejected while other windows
\* are tracked.
C17_Witness ==
  \E r \in Requests :
    /\ Done(r, "closeReferenceWindow")
    /\ msg[r].windowId \notin referenceWindows
    /\ referenceWindows # {}
    /\ calls[r] = <<>>
    /\ Response(r) = Failure("Window is not a tracked reference window")

\* C18: closeAllReferenceWindows issues, when it is delivered, one removal
\* for every window tracked at that moment and nothing else; no later step
\* adds or withdraws a removal, whatever the results of the others, and the
\* call completes with success once all of them have settled.
C18_CloseAllFansOut ==
  [][\A r \in Requests :
       /\ (pc[r] = "idle" /\ msg'[r].action = "closeAllReferenceWindows") =>
            /\ Len(calls'[r]) = Cardinality(referenceWindows)
            /\ \A w \in referenceWindows :
                 \E i \in 1..Len(calls'[r]) :
                   calls'[r][i].op = "windows.remove" /\ calls'[r][i].windowId = w
       /\ (pc[r] = "all:await") =>
            /\ Len(calls'[r]) = Len(calls[r])
            /\ \A i \in 1..Len(calls[r]) :
                 /\ calls'[r][i].windowId = calls[r][i].windowId
                 /\ calls[r][i].result # "pending" => calls'[r][i] = calls[r][i]
            /\ pc'[r] = "done" =>
                 /\ sent'[r][1].success
                 /\ \A i \in 1..Len(calls'[r]) : calls'[r][i].result # "pending"
            /\ pc'[r] \in {"all:await", "done"}]_vars

\* closeAllReferenceWindows has succeeded although the removal of the first
\* window failed while the removal of another one went through.
C18_Witness ==
  \E r \in Requests :
    /\ Done(r, "closeAllReferenceWindows")
    /\ Response(r).success
    /\ Len(calls[r]) >= 2
    /\ calls[r][1].result = "fail"
    /\ \E i \in 2..Len(calls[r]) : calls[r][i].result = "ok"

\* C19: quickSplit that found fewer than 2 tabs in the current window has
\* failed with the need-2-tabs error; the lookup of the current window is
\* its only host call, so splitWindow was not entered and no window was
\* created or removed.
C19_QuickSplitNeedsTwoTabs ==
  \A r \in Requests :
    (/\ msg[r].action = "quickSplit"
     /\ pc[r] \notin {"idle", "quick:getCurrent"}
     /\ Len(loc[r].tabs) < 2)
    => /\ pc[r] = "done"
       /\ Response(r) = Failure("Need at least 2 tabs to split")
       /\ Len(calls[r]) = 1
       /\ calls[r][1].op = "windows.getCurrent"
       /\ loc[r].leftTabId = Null /\ loc[r].rightTabId = Null

\* quickSplit on a window whose only tab is active has failed.
C19_Witness ==
  \E r \in Requests :
    /\ Done(r, "quickSplit")
    /\ calls[r][1].result = "ok"
    /\ loc[r].tabs = TabList(1, 1)
    /\ Response(r) = Failure("Need at least 2 tabs to split")

\* The handler of r has not issued again a host call that had failed.
NoCallAfterItFailed(r) ==
  \A i, j \in 1..Len(calls[r]) :
    (i < j /\ calls[r][i].result = "fail") =>
      [calls[r][j] EXCEPT !.result = "fail"] # calls[r][i]

\* C20: every delivered request is eventually answered, given that every
\* host call settles; it is answered once, when its handler finishes, with
\* a response that carries success = true or success = false and an error
\* text; and its handler never issues again a host call that failed.
C20_EveryRequestAnsweredOnce ==
  /\ [](\A r \in Requests :
          /\ Len(sent[r]) = (IF pc[r] = "done" THEN 1 ELSE 0)
          /\ pc[r] = "done" =>
               /\ Response(r).success \in BOOLEAN
               /\ ~Response(r).success => Response(r).error \in STRING
          /\ NoCallAfterItFailed(r))
  /\ \A r \in Requests : (pc[r] # "idle") ~> (pc[r] = "done")

\* A request has been answered with the failure of a host call.
C20_Witness ==
  \E r \in Requests :
    /\ pc[r] = "done" /\ Len(sent[r]) = 1
    /\ ~Response(r).success
    /\ \E i \in 1..Len(calls[r]) : calls[r][i].result = "fail"

\* C21: a splitWindow that succeeded has issued exactly two window
\* creations, the first with the left tab id and focused = true, the second
\* with the right tab id and focused = false, and its result carries, as
\* leftWindow and rightWindow, the ids the host gave to the windows of the
\* first and of the second creation.
C21_SplitCreatesLeftThenRight ==
  /\ [](\A r \in Requests :
          (pc[r] = "done" /\ IsSplit(r) /\ Response(r).success) =>
            /\ msg[r].action = "splitWindow" =>
                 /\ loc[r].leftTabId = msg[r].leftTabId
                 /\ loc[r].rightTabId = msg[r].rightTabId
            /\ \E i, j \in 1..Len(calls[r]) :
                 /\ i < j
                 /\ CallsOf(r, "windows.create") = {i, j}
                 /\ calls[r][i].tabId = loc[r].leftTabId /\ calls[r][i].focused
                 /\ calls[r][j].tabId = loc[r].rightTabId /\ ~calls[r][j].focused
                 /\ calls[r][i].result = "ok" /\ calls[r][j].result = "ok"
            /\ Response(r).leftWindow = loc[r].leftWindow
            /\ Response(r).rightWindow = loc[r].rightWindow
            /\ Response(r).leftWindow # Response(r).rightWindow)
  /\ [][\A r \in Requests :
          /\ (pc[r] = "split:createLeft" /\ calls'[r][Len(calls[r])].result = "ok") =>
               loc'[r].leftWindow = nextWindowId /\ nextWindowId' = nextWindowId + 1
          /\ (pc[r] = "split:createRight" /\ calls'[r][Len(calls[r])].result = "ok") =>
               /\ nextWindowId' = nextWindowId + 1
               /\ loc[r].leftWindow > 0 => loc'[r].rightWindow = nextWindowId
          /\ (pc[r] \notin {"split:createLeft", "split:createRight"}) =>
               /\ loc'[r].leftWindow = loc[r].leftWindow
               /\ loc'[r].rightWindow = loc[r].rightWindow]_vars

\* splitWindow(12, 11) has succeeded: the higher tab id went to the left.
C21_Witness ==
  \E r \in Requests :
    /\ Done(r, "splitWindow")
    /\ Response(r).success
    /\ msg[r].leftTabId = Num(12) /\ msg[r].rightTabId = Num(11)
    /\ Cardinality(CallsOf(r, "windows.create")) = 2

\* C22: every window createReferenceWindow requests, the one of a
\* successful call included, has a fifth of the current window's width,
\* rounded down, its height and its top, starts at the current window's
\* right edge, is not focused and shows the requested tab.
C22_ReferenceWindowGeometry ==
  \A r \in Requests :
    msg[r].action = "createReferenceWindow" =>
      \A i \in CallsOf(r, "windows.create") :
        LET cw == loc[r].cw
            requested == calls[r][i]
        IN /\ 5 * requested.width <= cw.width /\ cw.width < 5 * (requested.width + 1)
           /\ requested.height = cw.height
           /\ requested.left = cw.left + cw.width
           /\ requested.top = cw.top
           /\ ~requested.focused
           /\ requested.tabId = msg[r].tabId
           /\ (pc[r] = "done" /\ Response(r).success) =>
                Response(r).dimensions = [width |-> requested.width, height |-> requested.height]

\* A reference window was created next to a current window whose width is
\* no multiple of 5.
C22_Witness ==
  \E r \in Requests :
    /\ Done(r, "createReferenceWindow")
    /\ Response(r).success
    /\ loc[r].cw.width = MinSplitWidth - 1
    /\ Cardinality(CallsOf(r, "windows.create")) = 1

\* No windows.remove call of any request has failed.
NoRemovalFailed ==
  \A r \in Requests :
    \A i \in CallsOf(r, "windows.remove") : calls[r][i].result # "fail"

\* C23: as long as no host removal has failed, every reference window that
\* is open in the host is tracked in the registry.
C23_NoOrphanedReferenceWindow ==
  NoRemovalFailed => hostWindows \subseteq referenceWindows

\* C24: quickSplit that found at least 2 tabs in the current window, none
\* of them active, has answered with a failure; the lookup of the current
\* window is its only host call, so no window was created or removed and no
\* pair of tabs was split.
C24_QuickSplitWithoutActiveTabFails ==
  \A r \in Requests :
    (/\ msg[r].action = "quickSplit"
     /\ pc[r] \notin {"idle", "quick:getCurrent"}
     /\ Len(loc[r].tabs) >= 2
     /\ \A i \in 1..Len(loc[r].tabs) : ~loc[r].tabs[i].active)
    => /\ pc[r] = "done"
       /\ ~Response(r).success
       /\ Response(r).error \in STRING
       /\ Len(calls[r]) = 1
       /\ calls[r][1].op = "windows.getCurrent"
       /\ loc[r].leftTabId = Null /\ loc[r].rightTabId = Null

\* quickSplit on two tabs of which none is active has failed with the
\* message of the TypeError.
C24_Witness ==
  \E r \in Requests :
    /\ Done(r, "quickSplit")
    /\ loc[r].tabs = TabList(2, 0)
    /\ Response(r) = Failure(TypeErrorMessage)
    /\ calls[r] = <<GetCurrentCall @@ [result |-> "ok"]>>

====
